---- MODULE Spec2Model ----
(***************************************************************************)
(* Lead lifecycle and multi-tenant access control of catchy_bot_dj.        *)
(*                                                                         *)
(* The database (Lead, User, Activity, Note rows) is the state.  Every     *)
(* view is an operator from (database, request) to (database, response);   *)
(* one action per view commits the result of one request.                  *)
(***************************************************************************)
EXTENDS Integers, Sequences, FiniteSets, TLC

VARIABLES leads, users, activities, notes, contacts, messages, channels,
          now, steps, resp, workers

vars == <<leads, users, activities, notes, contacts, messages, channels,
          now, steps, resp, workers>>

(***************************************************************************)
(* Bounds                                                                  *)
(***************************************************************************)
\* number of steps (requests and clock ticks) explored from an initial database
MaxSteps == 1
\* seconds that may pass while one lead is taken through its lifecycle
MaxWait == 1

(***************************************************************************)
(* Fixtures: two tenants, their users, the stage catalog                   *)
(***************************************************************************)
\* a1 and b1 are the admins of companies A and B, g1 and g2 agents of A, su a
\* superuser (createsuperuser: role admin, no company), x1 an address that is
\* no account yet
UserIds == {"a1", "g1", "g2", "b1", "su", "x1"}
LeadIds == 1..4
NoUser == "none"
NoCompany == "none"
NoTime == -1
NotFound == 0

\* User.company; a row saved by user_create_view has none
UserCompany(u) ==
    IF u \in {"su", "x1"} THEN NoCompany ELSE IF u = "b1" THEN "B" ELSE "A"

Superusers == {"su"}

\* LeadStage rows: 1 and 2 are active, 3 is an inactive stage
StageIds == {1, 2, 3}
ActiveStages == {1, 2}

STATUS_CHOICES == {"new", "contacted", "qualified", "converted", "won", "lost"}
PRIORITY_CHOICES == {"low", "medium", "high"}

\* timedelta(seconds=1) of the note_added de-duplication window
DedupWindow == 1

(***************************************************************************)
(* The database as one value                                               *)
(***************************************************************************)
DB ==
    [leads |-> leads, users |-> users, activities |-> activities, notes |-> notes,
     contacts |-> contacts, messages |-> messages, channels |-> channels]

\* the outcome of one request: the database it leaves and its response
Result(db, code) == [db |-> db, resp |-> code]

Max0(n) == IF n < 0 THEN 0 ELSE n

Activity(type, t) == [type |-> type, at |-> t]

ActivityCreate(db, l, type, t) ==
    [db EXCEPT !.activities[l] = Append(@, Activity(type, t))]

(***************************************************************************)
(* accounts.models.User                                                    *)
(***************************************************************************)
is_admin(db, u) == db.users[u].role = "admin" \/ u \in Superusers

Authenticated(db, u) == db.users[u].exists /\ db.users[u].is_active

(***************************************************************************)
(* leads.models.Lead                                                       *)
(***************************************************************************)
\* variant: only a won lead is closed to assignment
can_be_assigned_won_only(lead) == lead.status # "won"

can_be_assigned(lead) == lead.status \notin {"won", "lost"}

\* variant: the previous assignee's counter is left as it was
assign_to_keeps_old_count(db, l, user, t) ==
    IF ~can_be_assigned(db.leads[l])
    THEN [db |-> db, ret |-> FALSE]
    ELSE LET d1 == [db EXCEPT !.leads[l].assigned_to = user]
             d2 == ActivityCreate(d1, l, "assigned", t)
         IN [db |-> [d2 EXCEPT !.users[user].total_leads_assigned = @ + 1], ret |-> TRUE]

\* Lead.assign_to(user, assigned_by): returns the database and the boolean
assign_to(db, l, user, t) ==
    IF ~can_be_assigned(db.leads[l])
    THEN [db |-> db, ret |-> FALSE]
    ELSE LET old_assignee == db.leads[l].assigned_to
             d1 == [db EXCEPT !.leads[l].assigned_to = user]
             d2 == ActivityCreate(d1, l, "assigned", t)
             d3 == [d2 EXCEPT !.users[user].total_leads_assigned = @ + 1]
             d4 == IF old_assignee # NoUser /\ old_assignee # user
                   THEN [d3 EXCEPT !.users[old_assignee].total_leads_assigned = Max0(@ - 1)]
                   ELSE d3
         IN [db |-> d4, ret |-> TRUE]

\* variant: the stage is changed and nothing is logged
change_stage_unlogged(db, l, new_stage, t) == [db EXCEPT !.leads[l].stage = new_stage]

change_stage(db, l, new_stage, t) ==
    ActivityCreate([db EXCEPT !.leads[l].stage = new_stage], l, "stage_changed", t)

\* variant: the won counter is not maintained
change_status_skips_won(db, l, new_status, t) ==
    LET assignee == db.leads[l].assigned_to
        d1 == [db EXCEPT !.leads[l].status = new_status]
        d2 == IF assignee # NoUser /\ new_status = "converted"
              THEN [d1 EXCEPT !.users[assignee].total_leads_converted = @ + 1]
              ELSE d1
    IN ActivityCreate(d2, l, "status_changed", t)

change_status(db, l, new_status, t) ==
    LET assignee == db.leads[l].assigned_to
        d1 == [db EXCEPT !.leads[l].status = new_status]
        d2 == IF assignee # NoUser
              THEN IF new_status = "converted"
                   THEN [d1 EXCEPT !.users[assignee].total_leads_converted = @ + 1]
                   ELSE IF new_status = "won"
                        THEN [d1 EXCEPT !.users[assignee].total_leads_won = @ + 1]
                        ELSE d1
              ELSE d1
    IN ActivityCreate(d2, l, "status_changed", t)

\* signals.log_note_creation: post_save receiver of Note
RecentNoteActivity(db, l, t) ==
    \E i \in 1..Len(db.activities[l]) :
        /\ db.activities[l][i].type = "note_added"
        /\ db.activities[l][i].at >= t - DedupWindow

log_note_creation(db, l, t) ==
    IF ~RecentNoteActivity(db, l, t)
    THEN ActivityCreate(db, l, "note_added", t)
    ELSE db

\* Lead.add_note: Note.objects.create fires the receiver, then the method logs
add_note(db, l, content, user, t) ==
    LET d1 == [db EXCEPT !.notes[l] = Append(@, [content |-> content, at |-> t])]
        d2 == log_note_creation(d1, l, t)
    IN ActivityCreate(d2, l, "note_added", t)

(***************************************************************************)
(* accounts.decorators                                                     *)
(***************************************************************************)
company_required(db, u) == UserCompany(u) # NoCompany \/ u \in Superusers

admin_required(db, u) == is_admin(db, u) \/ u \in Superusers

(***************************************************************************)
(* leads.views: single-lead endpoints                                      *)
(***************************************************************************)
\* variant: the lookup is by id alone
GetLead_any_company(db, u, pk) ==
    IF pk \in LeadIds /\ db.leads[pk].exists THEN pk ELSE NotFound

\* get_object_or_404(Lead, pk=pk, company=request.user.company)
GetLead(db, u, pk) ==
    IF pk \in LeadIds /\ db.leads[pk].exists /\ db.leads[pk].company = UserCompany(u)
    THEN pk
    ELSE NotFound

\* variant: any user of the lead's company may edit
CanEdit_any_user(db, u, l) == UserCompany(u) = db.leads[l].company

\* admin or the lead's current assignee
CanEdit(db, u, l) == is_admin(db, u) \/ db.leads[l].assigned_to = u

\* queryset of the assigned_to form fields: active users of the company
AgentChoices(db, u) ==
    {x \in UserIds : db.users[x].exists /\ db.users[x].is_active
                     /\ UserCompany(x) = UserCompany(u)}

lead_detail_view(db, u, pk, method, content, t) ==
    LET lead == GetLead(db, u, pk) IN
    IF lead = NotFound THEN Result(db, "404")
    ELSE IF method = "POST" /\ content # ""
         THEN Result(add_note(db, lead, content, u, t), "302")
         ELSE Result(db, "200")

\* a found lead is serialised with its tags manager, which JsonResponse
\* cannot encode: the catch-all handler answers 500
lead_json_view(db, u, pk) ==
    IF GetLead(db, u, pk) = NotFound THEN Result(db, "404") ELSE Result(db, "500")

FormOf(lead) ==
    [status |-> lead.status, stage |-> lead.stage, priority |-> lead.priority,
     assigned_to |-> lead.assigned_to, next_follow_up |-> lead.next_follow_up]

\* LeadCreateForm / LeadEditForm field validation
FormValid(db, u, f, t) ==
    /\ f.status \in STATUS_CHOICES
    /\ f.stage \in StageIds
    /\ f.priority \in PRIORITY_CHOICES
    /\ f.assigned_to = NoUser \/ f.assigned_to \in AgentChoices(db, u)
    /\ f.next_follow_up = NoTime \/ f.next_follow_up >= t

\* form.save(): the instance already carries the cleaned values when the
\* view compares old and new, so changed_fields is empty and nothing is logged
lead_edit_view(db, u, pk, method, f, t) ==
    LET lead == GetLead(db, u, pk) IN
    IF lead = NotFound THEN Result(db, "404")
    ELSE IF ~CanEdit(db, u, lead) THEN Result(db, "denied")
    ELSE IF method = "POST" /\ FormValid(db, u, f, t)
         THEN Result([db EXCEPT !.leads[lead].status = f.status,
                                !.leads[lead].stage = f.stage,
                                !.leads[lead].priority = f.priority,
                                !.leads[lead].assigned_to = f.assigned_to,
                                !.leads[lead].next_follow_up = f.next_follow_up],
                     "302")
         ELSE Result(db, "200")

\* variant: a won lead is deleted like any other
lead_delete_view_no_won_check(db, u, pk, ajax, t) ==
    IF ~admin_required(db, u)
    THEN Result(db, IF ajax THEN "403" ELSE "to_dashboard")
    ELSE LET lead == GetLead(db, u, pk) IN
         IF lead = NotFound THEN Result(db, "404")
         ELSE Result(ActivityCreate([db EXCEPT !.leads[lead].status = "deleted"],
                                    lead, "status_changed", t),
                     "302")

lead_delete_view(db, u, pk, ajax, t) ==
    IF ~admin_required(db, u)
    THEN Result(db, IF ajax THEN "403" ELSE "to_dashboard")
    ELSE LET lead == GetLead(db, u, pk) IN
         IF lead = NotFound THEN Result(db, "404")
         ELSE IF db.leads[lead].status = "won" THEN Result(db, "cannot_delete_won")
         ELSE Result(ActivityCreate([db EXCEPT !.leads[lead].status = "deleted"],
                                    lead, "status_changed", t),
                     "302")

lead_assign_view(db, u, pk, method, new_agent, t) ==
    LET lead == GetLead(db, u, pk) IN
    IF lead = NotFound THEN Result(db, "404")
    ELSE IF ~can_be_assigned(db.leads[lead]) THEN Result(db, "closed")
    ELSE IF method = "POST" /\ new_agent \in AgentChoices(db, u)
         THEN LET r == assign_to(db, lead, new_agent, t) IN
              Result(r.db, IF r.ret THEN "302" ELSE "failed")
         ELSE Result(db, "200")

lead_change_status_view(db, u, pk, new_status, t) ==
    LET lead == GetLead(db, u, pk) IN
    IF lead = NotFound THEN Result(db, "404")
    ELSE IF new_status \in STATUS_CHOICES
         THEN Result(change_status(db, lead, new_status, t), "302")
         ELSE Result(db, "invalid")

lead_change_stage_view(db, u, pk, stage_id, t) ==
    LET lead == GetLead(db, u, pk) IN
    IF lead = NotFound THEN Result(db, "404")
    ELSE IF stage_id \in ActiveStages
         THEN Result(change_stage(db, lead, stage_id, t), "302")
         ELSE Result(db, "invalid")

lead_set_follow_up_view(db, u, pk, follow_up, t) ==
    LET lead == GetLead(db, u, pk) IN
    IF lead = NotFound THEN Result(db, "404")
    ELSE IF follow_up = NoTime \/ follow_up < t THEN Result(db, "invalid")
    ELSE Result(ActivityCreate([db EXCEPT !.leads[lead].next_follow_up = follow_up],
                               lead, "contacted", t),
                "302")

lead_add_note_view(db, u, pk, content, t) ==
    LET lead == GetLead(db, u, pk) IN
    IF lead = NotFound THEN Result(db, "404")
    ELSE IF content # ""
         THEN Result(add_note(db, lead, content, u, t), "302")
         ELSE Result(db, "invalid")

lead_quick_update_view(db, u, pk, field, value, t) ==
    LET lead == GetLead(db, u, pk) IN
    IF lead = NotFound THEN Result(db, "404")
    ELSE IF ~CanEdit(db, u, lead) THEN Result(db, "403")
    ELSE IF field \notin {"priority", "status", "next_follow_up"} THEN Result(db, "400")
    ELSE IF field = "status"
         THEN IF value \notin STATUS_CHOICES THEN Result(db, "400")
              ELSE Result(ActivityCreate(change_status(db, lead, value, t),
                                         lead, "status_changed", t), "200")
    ELSE IF field = "priority"
         THEN IF value \notin PRIORITY_CHOICES THEN Result(db, "400")
              ELSE Result(ActivityCreate([db EXCEPT !.leads[lead].priority = value],
                                         lead, "field_updated", t), "200")
    ELSE IF value < t THEN Result(db, "400")
         ELSE Result(ActivityCreate([db EXCEPT !.leads[lead].next_follow_up = value],
                                    lead, "field_updated", t), "200")

(***************************************************************************)
(* leads.views.lead_bulk_actions_view                                      *)
(***************************************************************************)
\* Lead.objects.filter(pk__in=lead_ids, company=request.user.company)
BulkLeads(db, u, lead_ids) ==
    {l \in LeadIds : l \in lead_ids /\ db.leads[l].exists
                     /\ db.leads[l].company = UserCompany(u)}

MaxOf(S) == CHOOSE x \in S : \A y \in S : y <= x

\* the body of the per-lead loop of one bulk action
BulkItem(db, l, action, param, t) ==
    IF action = "assign" THEN assign_to(db, l, param, t).db
    ELSE IF action = "change_status" THEN change_status(db, l, param, t)
    ELSE IF action = "change_stage" THEN change_stage(db, l, param, t)
    ELSE ActivityCreate(db, l, "status_changed", t)

RECURSIVE BulkLoop(_, _, _, _, _)
BulkLoop(db, ls, action, param, t) ==
    IF ls = {} THEN db
    ELSE LET l == MaxOf(ls) IN
         BulkLoop(BulkItem(db, l, action, param, t), ls \ {l}, action, param, t)

\* QuerySet.update(**fields) over the selected leads
BulkUpdatePriority(db, ls, priority) ==
    [db EXCEPT !.leads = [l \in LeadIds |->
                            IF l \in ls THEN [@[l] EXCEPT !.priority = priority] ELSE @[l]]]

BulkUpdateStatus(db, ls, status) ==
    [db EXCEPT !.leads = [l \in LeadIds |->
                            IF l \in ls THEN [@[l] EXCEPT !.status = status] ELSE @[l]]]

lead_bulk_actions_view(db, u, action, lead_ids, param, t) ==
    LET ls == BulkLeads(db, u, lead_ids) IN
    IF ls = {} THEN Result(db, "400")
    ELSE IF action = "assign"
         THEN IF param \in UserIds /\ db.users[param].exists
                 /\ UserCompany(param) = UserCompany(u)
              THEN Result(BulkLoop(db, ls, action, param, t), "302")
              ELSE Result(db, "404")
    ELSE IF action = "change_status"
         THEN IF param \notin STATUS_CHOICES THEN Result(db, "400")
              ELSE Result(BulkLoop(db, ls, action, param, t), "302")
    ELSE IF action = "change_stage"
         THEN IF param \in ActiveStages
              THEN Result(BulkLoop(db, ls, action, param, t), "302")
              ELSE Result(db, "404")
    ELSE IF action = "set_priority"
         THEN IF param \notin PRIORITY_CHOICES THEN Result(db, "400")
              ELSE Result(BulkLoop(BulkUpdatePriority(db, ls, param), ls, action, param, t),
                          "302")
    ELSE IF action = "delete"
         THEN IF ~is_admin(db, u) THEN Result(db, "403")
              ELSE Result(BulkLoop(BulkUpdateStatus(db, ls, "deleted"), ls, action, param, t),
                          "302")
    ELSE Result(db, "400")

(***************************************************************************)
(* accounts.views: user management                                         *)
(***************************************************************************)
\* get_object_or_404(User, pk=pk)
GetUser(db, pk) == IF pk \in UserIds /\ db.users[pk].exists THEN pk ELSE NoUser

user_detail_view(db, u, pk) ==
    LET viewed_user == GetUser(db, pk) IN
    IF viewed_user = NoUser THEN Result(db, "404")
    ELSE IF ~is_admin(db, u) /\ viewed_user # u THEN Result(db, "denied")
    ELSE IF is_admin(db, u) /\ UserCompany(viewed_user) # UserCompany(u)
         THEN Result(db, "to_user_list")
         ELSE Result(db, "200")

user_edit_view(db, u, pk, method, f) ==
    LET user == GetUser(db, pk)
        can_edit_all_fields == is_admin(db, u)
    IN
    IF user = NoUser THEN Result(db, "404")
    ELSE IF ~(can_edit_all_fields \/ user = u) THEN Result(db, "403")
    ELSE IF method = "POST"
         THEN IF can_edit_all_fields
              THEN Result([db EXCEPT !.users[user].role = f.role,
                                     !.users[user].is_active = f.is_active], "302")
              ELSE Result(db, "302")
         ELSE Result(db, "200")

\* user.delete(): Lead.assigned_to is on_delete=SET_NULL
UserDelete(db, user) ==
    [db EXCEPT !.users[user].exists = FALSE,
               !.leads = [l \in LeadIds |->
                            IF @[l].assigned_to = user
                            THEN [@[l] EXCEPT !.assigned_to = NoUser] ELSE @[l]]]

user_delete_view(db, u, pk) ==
    IF ~admin_required(db, u) THEN Result(db, "to_dashboard")
    ELSE LET user == GetUser(db, pk) IN
         IF user = NoUser THEN Result(db, "404")
         ELSE IF user = u THEN Result(db, "rejected")
         ELSE IF user \in Superusers /\ u \notin Superusers THEN Result(db, "rejected")
         ELSE Result(UserDelete(db, user), "302")

toggle_user_status(db, u, pk) ==
    IF ~is_admin(db, u) THEN Result(db, "403")
    ELSE LET user == GetUser(db, pk) IN
         IF user = NoUser THEN Result(db, "404")
         ELSE IF user = u THEN Result(db, "rejected")
         ELSE IF user \in Superusers /\ u \notin Superusers THEN Result(db, "rejected")
         ELSE Result([db EXCEPT !.users[user].is_active = ~@], "200")

\* UserCreateForm: clean_email refuses the address of an account, clean_password2
\* two passwords that differ
UserCreateFormValid(db, f) ==
    /\ f.email \in UserIds /\ ~db.users[f.email].exists
    /\ f.password1 = f.password2

\* form.save(commit=False), user.save(): the row has the form's fields, the
\* model's defaults and no company
user_create_view(db, u, method, f) ==
    IF ~admin_required(db, u) THEN Result(db, "to_dashboard")
    ELSE IF method = "POST"
         THEN IF UserCreateFormValid(db, f)
              THEN Result([db EXCEPT !.users[f.email] =
                               [exists |-> TRUE, is_active |-> TRUE, role |-> f.role,
                                total_leads_assigned |-> 0, total_leads_converted |-> 0,
                                total_leads_won |-> 0]], "302")
              ELSE Result(db, "invalid")
         ELSE Result(db, "200")

(***************************************************************************)
(* Initial databases.  Lead 1 belongs to company A, lead 2 to company B    *)
(* (to company A in the last fixture), id 3 is not a row.  Each fixture is *)
(* a database the operations below produce from empty tables.  No WhatsApp *)
(* message has arrived yet.                                                *)
(***************************************************************************)
NoLead ==
    [exists |-> FALSE, company |-> NoCompany, status |-> "new", stage |-> 1,
     priority |-> "medium", assigned_to |-> NoUser, next_follow_up |-> NoTime]

MkLead(c, st, asg) ==
    [NoLead EXCEPT !.exists = TRUE, !.company = c, !.status = st, !.assigned_to = asg]

MkUser(u, assigned, converted, won) ==
    [exists |-> u # "x1", is_active |-> TRUE,
     role |-> IF u \in {"a1", "b1", "su"} THEN "admin" ELSE "agent",
     total_leads_assigned |-> assigned, total_leads_converted |-> converted,
     total_leads_won |-> won]

\* Lead.phone and Lead.name of a row; the phones of one company are distinct
NoContact == [phone |-> "", name |-> ""]

MkContact(phone, name) == [phone |-> phone, name |-> name]

\* the WhatsApp Channel row of a lead
NoChannel == [exists |-> FALSE, unread_count |-> 0, last_message_at |-> NoTime]

\* the server processes that answer requests at the same time, and the
\* memory of one that has no request: pc is the next statement, snap the Lead
\* instance it loaded, cnt and old_cnt the counters of the User instances
Workers == {1, 2}

IdleWorker ==
    [pc |-> "idle", op |-> "none", lead |-> NotFound, arg |-> "none", snap |-> NoLead,
     cnt |-> 0, old_cnt |-> 0]

Acts(types) == [i \in 1..Len(types) |-> Activity(types[i], 0)]

\* lead 1 as [st, asg, acts, notes], the counters of g1, the clock
Fixtures ==
    { \* Lead.objects.create, then assign_to(g1)
      [st |-> "new", asg |-> "g1", acts |-> <<"created", "assigned">>, nt |-> <<>>,
       g1 |-> <<1, 0, 0>>, two |-> "B", now |-> 0],
      \* create, then add_note two seconds ago
      [st |-> "new", asg |-> NoUser, acts |-> <<"created", "note_added", "note_added">>,
       nt |-> <<[content |-> "x", at |-> 0]>>,
       g1 |-> <<0, 0, 0>>, two |-> "B", now |-> 2],
      \* create, assign_to(g1), change_status("won"); lead 2 in company A as well
      [st |-> "won", asg |-> "g1",
       acts |-> <<"created", "assigned", "status_changed">>, nt |-> <<>>,
       g1 |-> <<1, 0, 1>>, two |-> "A", now |-> 0] }

Init ==
    \E fx \in Fixtures :
        /\ leads = [l \in LeadIds |->
                      IF l = 1 THEN MkLead("A", fx.st, fx.asg)
                      ELSE IF l = 2 THEN MkLead(fx.two, "new", NoUser) ELSE NoLead]
        /\ users = [u \in UserIds |->
                      IF u = "g1" THEN MkUser(u, fx.g1[1], fx.g1[2], fx.g1[3])
                      ELSE MkUser(u, 0, 0, 0)]
        /\ activities = [l \in LeadIds |->
                           IF l = 1 THEN Acts(fx.acts)
                           ELSE IF l = 2 THEN Acts(<<"created">>) ELSE <<>>]
        /\ notes = [l \in LeadIds |-> IF l = 1 THEN fx.nt ELSE <<>>]
        /\ contacts = [l \in LeadIds |->
                          IF l = 1 THEN MkContact("+20100", "n1")
                          ELSE IF l = 2
                               THEN MkContact(IF fx.two = "A" THEN "+20200" ELSE "+20100", "n2")
                               ELSE NoContact]
        /\ messages = [l \in LeadIds |-> <<>>]
        /\ channels = [l \in LeadIds |-> NoChannel]
        /\ workers = [w \in Workers |-> IdleWorker]
        /\ now = fx.now
        /\ steps = 0
        /\ resp = [view |-> "none", pk |-> 0, code |-> "none"]

(***************************************************************************)
(* Lead creation: the create form, the file import                         *)
(***************************************************************************)
\* a Lead saved with no stage
NoStage == 0

\* LeadStage.objects.filter(stage_type='lead', is_active=True).order_by('order').first()
default_stage == 1

\* LeadCreateForm.clean_phone: a leading 0 gets '+2' in front, a phone that
\* starts with + and has 10 to 15 digits is kept, anything else is refused ("")
clean_phone(phone) ==
    CASE phone = "0100" -> "+20100"
      [] phone \in {"+20100", "+20200", "+20300", "+20900"} -> phone
      [] OTHER -> ""

\* the row of (company, phone), NotFound when there is none
LeadByPhone(db, company, phone) ==
    LET found == {l \in LeadIds : /\ db.leads[l].exists
                                  /\ db.leads[l].company = company
                                  /\ db.contacts[l].phone = phone}
    IN IF found = {} THEN NotFound ELSE CHOOSE l \in found : TRUE

InsertAllowed_stage_only(db, row) == row.stage # NoStage

\* the constraints of an INSERT into leads: company and stage are NOT NULL and
\* unique_together = ['company', 'phone']
InsertAllowed(db, row) ==
    /\ row.company # NoCompany
    /\ row.stage # NoStage
    /\ LeadByPhone(db, row.company, row.phone) = NotFound

FreeIds(db) == {l \in LeadIds : ~db.leads[l].exists}

NextId(db) == CHOOSE l \in FreeIds(db) : \A k \in FreeIds(db) : l <= k

\* the INSERT of a new Lead and its post_save receiver create_lead_activity
LeadInsert(db, row, t) ==
    LET l == NextId(db)
        d1 == [db EXCEPT !.leads[l] =
                             [exists |-> TRUE, company |-> row.company,
                              status |-> row.status, stage |-> row.stage,
                              priority |-> row.priority, assigned_to |-> row.assigned_to,
                              next_follow_up |-> row.next_follow_up],
                         !.contacts[l] = MkContact(row.phone, row.name)]
    IN ActivityCreate(d1, l, "created", t)

CreateFormValid(db, u, f, t) ==
    /\ f.name # ""
    /\ clean_phone(f.phone) # ""
    /\ FormValid(db, u, f, t)

lead_create_view(db, u, method, f, t) ==
    IF method # "POST" THEN Result(db, "200")
    ELSE IF ~CreateFormValid(db, u, f, t) THEN Result(db, "invalid")
    ELSE LET row == [company |-> UserCompany(u), phone |-> clean_phone(f.phone),
                     name |-> f.name, stage |-> f.stage, status |-> f.status,
                     priority |-> f.priority,
                     assigned_to |-> IF f.assigned_to = NoUser THEN u ELSE f.assigned_to,
                     next_follow_up |-> f.next_follow_up]
         IN IF ~InsertAllowed(db, row) THEN Result(db, "error")
            ELSE LET l == NextId(db)
                     d1 == LeadInsert(db, row, t)
                     d2 == ActivityCreate(d1, l, "created", t)
                 IN Result([d2 EXCEPT !.users[row.assigned_to].total_leads_assigned = @ + 1],
                           "302")

\* Lead.objects.filter(company=...).values_list('phone', flat=True)
ExistingPhones(db, company) ==
    {db.contacts[l].phone : l \in {k \in LeadIds : db.leads[k].exists
                                                   /\ db.leads[k].company = company}}

\* the loop over the rows of the file; existing_phones is the set read before
\* the loop, kept up to date by the loop alone
RECURSIVE ImportRows(_, _, _, _, _, _)
ImportRows(db, existing_phones, rows, u, assigned_to, t) ==
    IF rows = <<>> THEN db
    ELSE LET row_data == Head(rows)
             row == [company |-> UserCompany(u), phone |-> row_data.phone,
                     name |-> row_data.name, stage |-> default_stage, status |-> "new",
                     priority |-> "medium", assigned_to |-> assigned_to,
                     next_follow_up |-> NoTime]
         IN IF row_data.phone = "" \/ row_data.phone \in existing_phones
                  \/ ~InsertAllowed(db, row)
            THEN ImportRows(db, existing_phones, Tail(rows), u, assigned_to, t)
            ELSE ImportRows(ActivityCreate(LeadInsert(db, row, t), NextId(db), "created", t),
                            existing_phones \cup {row_data.phone}, Tail(rows),
                            u, assigned_to, t)

\* rows without a name are not read from the file
NamedRows(rows) == SelectSeq(rows, LAMBDA r : r.name # "")

lead_import_view(db, u, method, rows, assigned_to, t) ==
    IF ~admin_required(db, u) THEN Result(db, "to_dashboard")
    ELSE IF method # "POST" THEN Result(db, "200")
    ELSE IF assigned_to # NoUser /\ assigned_to \notin AgentChoices(db, u)
         THEN Result(db, "invalid")
         ELSE Result(ImportRows(db, ExistingPhones(db, UserCompany(u)), NamedRows(rows),
                                u, assigned_to, t),
                     "302")

(***************************************************************************)
(* WhatsApp webhook                                                        *)
(***************************************************************************)
\* the WoztellConfig rows: one per company, company B's is switched off
WoztellConfigs ==
    {[webhook_secret |-> "sA", company |-> "A", is_active |-> TRUE],
     [webhook_secret |-> "sB", company |-> "B", is_active |-> FALSE]}

ActiveConfig_ignores_is_active(webhook_secret) ==
    {c \in WoztellConfigs : c.webhook_secret = webhook_secret}

\* WoztellConfig.objects.get(webhook_secret=webhook_secret, is_active=True)
ActiveConfig(webhook_secret) ==
    {c \in WoztellConfigs : c.webhook_secret = webhook_secret /\ c.is_active}

\* Message.media_type is a CharField(max_length=20)
MediaTypeMaxLength == 20

\* the constraints of an INSERT into messages
MessageInsertAllowed(p) == Len(p.media_type) <= MediaTypeMaxLength

\* the Message row of an incoming payload
IncomingMessage(p, t) ==
    [direction |-> "incoming",
     content |-> IF p.message # "" THEN p.message ELSE "[Media]",
     woztell_message_id |-> p.message_id, created_at |-> t,
     status |-> "delivered", error_message |-> ""]

\* the body of the transaction.atomic() block, statement by statement: the
\* database as the last statement run leaves it, and whether that one raised
webhook_block(db, company, p, t) ==
    LET found == LeadByPhone(db, company, p.phone)
        row == [company |-> company, phone |-> p.phone,
                name |-> IF p.name # "" THEN p.name ELSE "WhatsApp User",
                stage |-> NoStage, status |-> "new", priority |-> "medium",
                assigned_to |-> NoUser, next_follow_up |-> NoTime]
    IN IF found = NotFound /\ ~InsertAllowed(db, row)
       THEN [db |-> db, raised |-> TRUE]
       ELSE LET l == IF found = NotFound THEN NextId(db) ELSE found
                d1 == IF found = NotFound THEN LeadInsert(db, row, t) ELSE db
                d2 == IF p.name # "" /\ d1.contacts[l].name # p.name
                      THEN [d1 EXCEPT !.contacts[l].name = p.name]
                      ELSE d1
            IN IF ~MessageInsertAllowed(p)
               THEN [db |-> d2, raised |-> TRUE]
               ELSE [db |-> [d2 EXCEPT
                                !.messages[l] = Append(@, IncomingMessage(p, t)),
                                !.channels[l] = [exists |-> TRUE,
                                                 unread_count |-> @.unread_count + 1,
                                                 last_message_at |-> t]],
                     raised |-> FALSE]

atomic_without_rollback(db, block) == block.db

\* with transaction.atomic(): an exception undoes every write of the block
atomic(db, block) == IF block.raised THEN db ELSE block.db

webhook_receiver(db, webhook_secret, p, t) ==
    IF ActiveConfig(webhook_secret) = {} THEN Result(db, "401")
    ELSE IF ~p.json THEN Result(db, "400")
    ELSE IF p.phone = "" THEN Result(db, "400")
    ELSE IF p.message = "" /\ p.media_url = "" THEN Result(db, "400")
    ELSE LET config == CHOOSE c \in ActiveConfig(webhook_secret) : TRUE
             block == webhook_block(db, config.company, p, t)
         IN Result(atomic(db, block), IF block.raised THEN "500" ELSE "200")

(***************************************************************************)
(* Outbound messages: send_message_api and woztell_api                     *)
(***************************************************************************)
\* Message.objects.create(... status=Message.STATUS_PENDING)
OutgoingMessage(p, t) ==
    [direction |-> "outgoing",
     content |-> IF p.message # "" THEN p.message ELSE "[Media]",
     woztell_message_id |-> "", created_at |-> t,
     status |-> "pending", error_message |-> ""]

\* Message.mark_as_sent
mark_as_sent(m, woztell_message_id) ==
    [m EXCEPT !.status = "sent",
              !.woztell_message_id = IF woztell_message_id # "" THEN woztell_message_id ELSE @]

\* Message.mark_as_failed
mark_as_failed(m, error) == [m EXCEPT !.status = "failed", !.error_message = error]

\* variant: a provider failure leaves the message pending
send_whatsapp_message_keeps_pending(db, l, provider) ==
    LET n == Len(db.messages[l]) IN
    IF provider.ok /\ \E c \in WoztellConfigs : c.company = db.leads[l].company /\ c.is_active
    THEN [db |-> [db EXCEPT !.messages[l][n] = mark_as_sent(@, provider.message_id)],
          success |-> TRUE, error |-> ""]
    ELSE [db |-> db, success |-> FALSE, error |-> provider.error]

\* woztell_api.send_whatsapp_message on the lead's newest message; provider
\* is the answer of the Woztell API to the request
send_whatsapp_message(db, l, provider) ==
    LET n == Len(db.messages[l])
        failed(error) ==
            [db |-> [db EXCEPT !.messages[l][n] = mark_as_failed(@, error)],
             success |-> FALSE, error |-> error]
    IN IF ~\E c \in WoztellConfigs : c.company = db.leads[l].company /\ c.is_active
       THEN failed("Woztell configuration not found or inactive")
       ELSE IF provider.ok
            THEN [db |-> [db EXCEPT !.messages[l][n] = mark_as_sent(@, provider.message_id)],
                  success |-> TRUE, error |-> ""]
            ELSE failed(provider.error)

send_message_api(db, u, p, provider, t) ==
    IF ~p.json \/ p.lead_id = NotFound THEN Result(db, "400")
    ELSE IF p.message = "" /\ p.media_url = "" THEN Result(db, "400")
    ELSE LET lead == GetLead(db, u, p.lead_id) IN
         IF lead = NotFound THEN Result(db, "404")
         ELSE IF db.users[u].role = "agent" /\ db.leads[lead].assigned_to # u
              THEN Result(db, "403")
         ELSE IF ~MessageInsertAllowed(p) THEN Result(db, "500")
         ELSE LET d1 == [db EXCEPT !.messages[lead] = Append(@, OutgoingMessage(p, t))]
                  sent == send_whatsapp_message(d1, lead, provider)
              IN IF ~sent.success
                 THEN Result(sent.db, "500")
                 ELSE Result([sent.db EXCEPT !.channels[lead].exists = TRUE,
                                             !.channels[lead].last_message_at = t],
                             "200")

(***************************************************************************)
(* Lists and reports: list, kanban, export, core.views.dashboard_view      *)
(***************************************************************************)
\* Lead.objects.filter(company=company)
CompanyLeads(db, company) ==
    {l \in LeadIds : db.leads[l].exists /\ db.leads[l].company = company}

\* the rows of the list page, no filter chosen
lead_list_view(db, u) ==
    {l \in CompanyLeads(db, UserCompany(u)) : db.leads[l].status # "deleted"}

\* the cards of the board, no filter chosen
lead_kanban_view(db, u) ==
    {l \in CompanyLeads(db, UserCompany(u)) : db.leads[l].status # "deleted"}

\* the rows of the exported file, no filter chosen
lead_export_view(db, u) == CompanyLeads(db, UserCompany(u))

\* stages named 'delete' or 'deleted', stages of type or name converted/patient,
\* stages of type or name won, in the stage catalog
DeleteNamedStages == {}
ConvertedStages == {2}
WonStages == {}

\* the figures of the dashboard for user u, company being the resolved tenant
dashboard_view(db, u, company) ==
    LET leads_qs == {l \in CompanyLeads(db, company) :
                        db.leads[l].stage \notin DeleteNamedStages}
        user_assigned_leads ==
            IF is_admin(db, u) THEN CompanyLeads(db, company)
            ELSE {l \in CompanyLeads(db, company) : db.leads[l].assigned_to = u}
    IN [total_leads |-> Cardinality(leads_qs),
        won_leads |-> Cardinality({l \in leads_qs : db.leads[l].stage \in WonStages}),
        leads_by_stage |-> [g \in ActiveStages |->
                               Cardinality({l \in leads_qs : db.leads[l].stage = g})],
        recent_leads |-> leads_qs,
        user_stats |->
            [assigned |-> Cardinality(user_assigned_leads),
             converted |-> Cardinality({l \in user_assigned_leads :
                                           db.leads[l].stage \in ConvertedStages}),
             won |-> Cardinality({l \in user_assigned_leads :
                                     db.leads[l].stage \in WonStages})]]

(***************************************************************************)
(* Committing the outcome of one request                                   *)
(***************************************************************************)
\* core.utils.get_user_company: the session's selected_company_id for a
\* superuser, user.company for everyone else
get_user_company(u, selected_company_id) ==
    IF u \in Superusers
    THEN IF selected_company_id \in {"A", "B"} THEN selected_company_id ELSE NoCompany
    ELSE UserCompany(u)

\* the first lines of dashboard_view: where a request without a company goes
dashboard_entry(db, u, selected_company_id) ==
    LET company == get_user_company(u, selected_company_id) IN
    IF u \in Superusers /\ company = NoCompany THEN Result(db, "to_company_selector")
    ELSE IF company = NoCompany THEN Result(db, "to_login")
    ELSE Result(db, "200")

\* resp records the request just answered: the view, the lead id it named
\* (0 when it named none) and the response
Commit(view, pk, r) ==
    /\ steps < MaxSteps
    /\ steps' = steps + 1
    /\ leads' = r.db.leads
    /\ users' = r.db.users
    /\ activities' = r.db.activities
    /\ notes' = r.db.notes
    /\ contacts' = r.db.contacts
    /\ messages' = r.db.messages
    /\ channels' = r.db.channels
    /\ resp' = [view |-> view, pk |-> pk, code |-> r.resp]
    /\ UNCHANGED <<now, workers>>

\* one second passes between two requests
Tick ==
    /\ steps < MaxSteps
    /\ steps' = steps + 1
    /\ now' = now + 1
    /\ UNCHANGED <<leads, users, activities, notes, contacts, messages, channels, resp, workers>>

(***************************************************************************)
(* Requests: the inputs of each endpoint                                   *)
(***************************************************************************)
\* the logged-in users of a company
Callers ==
    {u \in UserIds \ Superusers : Authenticated(DB, u) /\ UserCompany(u) # NoCompany}
Contents == {"", "x"}
FollowUpInputs == {0, 9}
StatusInputs == {"contacted", "converted", "won", "lost", "deleted"}
QuickStatusInputs == {"converted", "won", "deleted"}
BulkStatusInputs == {"won", "deleted"}
AssignInputs == {"g1", "g2", "b1"}
PriorityInputs == {"high", "urgent"}
StageInputs == {2, 3}
BulkSelections == {{1, 2}, {3}}
MissingUser == "zz"
UserPks == UserIds \cup {MissingUser}

\* an edit submission: the lead's current values with one field changed
EditSubmissions(lead) ==
    LET cur == FormOf(lead) IN
    {[cur EXCEPT !.status = s] : s \in {"contacted", "won"}}
    \cup {[cur EXCEPT !.stage = g] : g \in {2}}
    \cup {[cur EXCEPT !.priority = p] : p \in {"high"}}
    \cup {[cur EXCEPT !.assigned_to = a] : a \in {"g2", "b1", NoUser}}
    \cup {[cur EXCEPT !.next_follow_up = d] : d \in FollowUpInputs}

UserForms == {[role |-> "admin", is_active |-> TRUE], [role |-> "agent", is_active |-> FALSE]}

\* a user creation submission; su is the address of an account
UserCreateForms ==
    [email : {"x1", "su"}, role : {"admin", "agent"}, password1 : {"p"},
     password2 : {"p", "q"}]

PhoneInputs == {"0100", "+20100", "+20200", "+20300", "abc"}

\* a create submission: the form's initial values, a name, a phone, an assignee
CreateSubmissions ==
    {[name |-> n, phone |-> ph, status |-> "new", stage |-> default_stage,
      priority |-> "medium", assigned_to |-> a, next_follow_up |-> NoTime] :
        n \in {"n3"}, ph \in PhoneInputs, a \in {NoUser, "g1", "g2"}}
    \cup {[name |-> "", phone |-> "+20200", status |-> "new", stage |-> default_stage,
           priority |-> "medium", assigned_to |-> NoUser, next_follow_up |-> NoTime]}

\* the rows of an uploaded file
ImportFiles ==
    {<<[name |-> "n3", phone |-> "+20100"], [name |-> "n4", phone |-> "+20300"]>>,
     <<[name |-> "n3", phone |-> "+20300"], [name |-> "n4", phone |-> "+20300"]>>,
     <<[name |-> "", phone |-> "+20300"], [name |-> "n4", phone |-> ""]>>,
     <<[name |-> "n3", phone |-> "0100"]>>,
     <<[name |-> "n3", phone |-> "+20200"]>>}

\* the rows of a direct Lead.objects.create(...)
DirectRows ==
    {[company |-> c, phone |-> ph, name |-> "n3", stage |-> g, status |-> "new",
      priority |-> "medium", assigned_to |-> NoUser, next_follow_up |-> NoTime] :
        c \in {"A", "B"}, ph \in {"+20100", "+20300"}, g \in {default_stage, NoStage}}

WebhookSecrets == {"sA", "sB", "zz"}

\* the answers of the Woztell API to a send request
ProviderAnswers ==
    {[ok |-> TRUE, message_id |-> "w1", error |-> ""],
     [ok |-> FALSE, message_id |-> "", error |-> "API returned 500"],
     [ok |-> FALSE, message_id |-> "", error |-> "Request timeout - Woztell API did not respond"]}

\* the bodies posted to send_message_api
SendPayloads ==
    {[json |-> TRUE, lead_id |-> l, message |-> m.message, media_url |-> m.media_url,
      media_type |-> m.media_type] :
        l \in {NotFound, 1, 2, 3},
        m \in {[message |-> "hi", media_url |-> "", media_type |-> ""],
               [message |-> "", media_url |-> "u", media_type |-> "image"],
               [message |-> "hi", media_url |-> "u", media_type |-> "application/octet-stream"],
               [message |-> "", media_url |-> "", media_type |-> ""]}}
    \cup {[json |-> FALSE, lead_id |-> NotFound, message |-> "", media_url |-> "",
           media_type |-> ""]}

\* the payloads of a delivery; a body that is not JSON carries no field
Payloads ==
    {[json |-> TRUE, phone |-> ph, name |-> n, message |-> m.message,
      message_id |-> "m1", media_url |-> m.media_url, media_type |-> m.media_type] :
        ph \in {"", "+20100", "+20900"}, n \in {"", "n1", "n9"},
        m \in {[message |-> "hi", media_url |-> "", media_type |-> ""],
               [message |-> "", media_url |-> "u", media_type |-> "image"],
               [message |-> "hi", media_url |-> "u", media_type |-> "application/octet-stream"],
               [message |-> "", media_url |-> "", media_type |-> ""]}}
    \cup {[json |-> FALSE, phone |-> "", name |-> "", message |-> "", message_id |-> "",
           media_url |-> "", media_type |-> ""]}

(***************************************************************************)
(* Actions: one per endpoint                                               *)
(***************************************************************************)
LeadDetail ==
    \E u \in Callers, pk \in LeadIds :
        \/ Commit("lead_detail", pk, lead_detail_view(DB, u, pk, "GET", "", now))
        \/ \E content \in Contents :
               Commit("lead_detail", pk, lead_detail_view(DB, u, pk, "POST", content, now))

LeadJson ==
    \E u \in Callers, pk \in LeadIds : Commit("lead_json", pk, lead_json_view(DB, u, pk))

LeadEdit ==
    \E u \in Callers, pk \in LeadIds :
        \/ Commit("lead_edit", pk, lead_edit_view(DB, u, pk, "GET", FormOf(leads[pk]), now))
        \/ \E f \in EditSubmissions(leads[pk]) :
               Commit("lead_edit", pk, lead_edit_view(DB, u, pk, "POST", f, now))

LeadDelete ==
    \E u \in Callers, pk \in LeadIds, ajax \in BOOLEAN :
        Commit("lead_delete", pk, lead_delete_view(DB, u, pk, ajax, now))

LeadAssign ==
    \E u \in Callers, pk \in LeadIds :
        \/ Commit("lead_assign", pk, lead_assign_view(DB, u, pk, "GET", NoUser, now))
        \/ \E new_agent \in AssignInputs :
               Commit("lead_assign", pk, lead_assign_view(DB, u, pk, "POST", new_agent, now))

LeadChangeStatus ==
    \E u \in Callers, pk \in LeadIds, s \in StatusInputs :
        Commit("lead_change_status", pk, lead_change_status_view(DB, u, pk, s, now))

LeadChangeStage ==
    \E u \in Callers, pk \in LeadIds, g \in StageInputs :
        Commit("lead_change_stage", pk, lead_change_stage_view(DB, u, pk, g, now))

LeadSetFollowUp ==
    \E u \in Callers, pk \in LeadIds, d \in FollowUpInputs \cup {NoTime} :
        Commit("lead_set_follow_up", pk, lead_set_follow_up_view(DB, u, pk, d, now))

LeadAddNote ==
    \E u \in Callers, pk \in LeadIds, content \in Contents :
        Commit("lead_add_note", pk, lead_add_note_view(DB, u, pk, content, now))

LeadQuickUpdate ==
    \E u \in Callers, pk \in LeadIds :
        \/ \E s \in QuickStatusInputs : Commit("lead_quick_status", pk, lead_quick_update_view(DB, u, pk, "status", s, now))
        \/ \E p \in PriorityInputs : Commit("lead_quick_update", pk, lead_quick_update_view(DB, u, pk, "priority", p, now))
        \/ \E d \in FollowUpInputs :
               Commit("lead_quick_update", pk, lead_quick_update_view(DB, u, pk, "next_follow_up", d, now))
        \/ Commit("lead_quick_update", pk, lead_quick_update_view(DB, u, pk, "name", "x", now))

LeadBulk ==
    \E u \in Callers, ids \in BulkSelections :
        \/ \E x \in AssignInputs : Commit("bulk_assign", 0, lead_bulk_actions_view(DB, u, "assign", ids, x, now))
        \/ \E s \in BulkStatusInputs :
               Commit("bulk_change_status", 0, lead_bulk_actions_view(DB, u, "change_status", ids, s, now))
        \/ \E g \in StageInputs :
               Commit("bulk_change_stage", 0, lead_bulk_actions_view(DB, u, "change_stage", ids, g, now))
        \/ \E p \in PriorityInputs :
               Commit("bulk_set_priority", 0, lead_bulk_actions_view(DB, u, "set_priority", ids, p, now))
        \/ Commit("bulk_delete", 0, lead_bulk_actions_view(DB, u, "delete", ids, "", now))
        \/ Commit("bulk_archive", 0, lead_bulk_actions_view(DB, u, "archive", ids, "", now))

UserDetail ==
    \E u \in Callers, pk \in UserPks : Commit("user_detail", 0, user_detail_view(DB, u, pk))

UserEdit ==
    \E u \in Callers, pk \in UserPks :
        \/ Commit("user_edit", 0, user_edit_view(DB, u, pk, "GET", [role |-> "agent", is_active |-> TRUE]))
        \/ \E f \in UserForms : Commit("user_edit", 0, user_edit_view(DB, u, pk, "POST", f))

UserDeleteReq ==
    \E u \in Callers, pk \in UserPks : Commit("user_delete", 0, user_delete_view(DB, u, pk))

ToggleUserStatus ==
    \E u \in Callers, pk \in UserPks : Commit("toggle_user_status", 0, toggle_user_status(DB, u, pk))

UserCreate ==
    \E u \in Callers :
        \/ Commit("user_create", 0,
                  user_create_view(DB, u, "GET", [email |-> "", role |-> "agent",
                                                  password1 |-> "", password2 |-> ""]))
        \/ \E f \in UserCreateForms : Commit("user_create", 0, user_create_view(DB, u, "POST", f))

\* the table has room for the rows a request can insert
Room(db, n) == Cardinality(FreeIds(db)) >= n

LeadCreate ==
    \E u \in Callers :
        /\ Room(DB, 1)
        /\ \/ Commit("lead_create", 0,
                     lead_create_view(DB, u, "GET", CHOOSE f \in CreateSubmissions : TRUE, now))
           \/ \E f \in CreateSubmissions :
                  Commit("lead_create", 0, lead_create_view(DB, u, "POST", f, now))

LeadImport ==
    \E u \in Callers, rows \in ImportFiles :
        /\ Room(DB, Len(rows))
        /\ \/ Commit("lead_import", 0, lead_import_view(DB, u, "GET", rows, NoUser, now))
           \/ \E a \in {NoUser, "g1", "b1"} :
                  Commit("lead_import", 0, lead_import_view(DB, u, "POST", rows, a, now))

\* Lead.objects.create(...): the row is inserted or IntegrityError is raised
LeadObjectsCreate ==
    \E row \in DirectRows :
        /\ Room(DB, 1)
        /\ Commit("objects_create", 0,
                  IF InsertAllowed(DB, row) THEN Result(LeadInsert(DB, row, now), "created")
                  ELSE Result(DB, "IntegrityError"))

Webhook ==
    \E webhook_secret \in WebhookSecrets, p \in Payloads :
        /\ Room(DB, 1)
        /\ Commit("webhook", 0, webhook_receiver(DB, webhook_secret, p, now))

Next ==
    \/ Tick
    \/ LeadDetail
    \/ LeadJson
    \/ LeadEdit
    \/ LeadDelete
    \/ LeadAssign
    \/ LeadChangeStatus
    \/ LeadChangeStage
    \/ LeadSetFollowUp
    \/ LeadAddNote
    \/ LeadQuickUpdate
    \/ LeadBulk

Spec == Init /\ [][Next]_vars

SendMessage ==
    \E u \in Callers, p \in SendPayloads, provider \in ProviderAnswers :
        Commit("send_message", p.lead_id, send_message_api(DB, u, p, provider, now))

\* the WhatsApp conversation of a lead: deliveries in, messages out, and the
\* assignment that decides which agent may write
NextMessaging ==
    \/ Tick
    \/ Webhook
    \/ SendMessage
    \/ LeadAssign

SpecMessaging == Init /\ [][NextMessaging]_vars

LeadList == \E u \in Callers : Commit("lead_list", 0, Result(DB, "200"))

LeadKanban == \E u \in Callers : Commit("lead_kanban", 0, Result(DB, "200"))

LeadExport == \E u \in Callers : Commit("lead_export", 0, Result(DB, "200"))

Dashboard == \E u \in Callers : Commit("dashboard", 0, Result(DB, "200"))

\* the pages that list and count leads, and the operations that decide what
\* they show
NextReports ==
    \/ Tick
    \/ LeadList
    \/ LeadKanban
    \/ LeadExport
    \/ Dashboard
    \/ LeadDelete
    \/ LeadAssign
    \/ LeadChangeStatus
    \/ LeadChangeStage

SpecReports == Init /\ [][NextReports]_vars

(***************************************************************************)
(* Requests of superusers and company users, each with the company its     *)
(* session has selected                                                    *)
(***************************************************************************)
Requesters == Callers \cup {u \in Superusers : Authenticated(DB, u)}

\* request.session['selected_company_id']: none, company A, company B
Selections == {NoCompany, "A", "B"}

TenantDashboard ==
    \E u \in Requesters, c \in Selections :
        Commit("dashboard", 0, dashboard_entry(DB, u, c))

\* the lead views pass company_required and then read request.user.company:
\* the session's selection c is part of the request and is never looked at
TenantLeadList ==
    \E u \in Requesters, c \in Selections :
        /\ company_required(DB, u)
        /\ Commit("lead_list", 0, Result(DB, "200"))

TenantLeadDetail ==
    \E u \in Requesters, c \in Selections, pk \in LeadIds :
        /\ company_required(DB, u)
        /\ Commit("lead_detail", pk, lead_detail_view(DB, u, pk, "GET", "", now))

TenantLeadCreate ==
    \E u \in Requesters, c \in Selections :
        /\ company_required(DB, u)
        /\ Room(DB, 1)
        /\ \E f \in {g \in CreateSubmissions : g.assigned_to = NoUser} :
               Commit("lead_create", 0, lead_create_view(DB, u, "POST", f, now))

TenantLeadChangeStatus ==
    \E u \in Requesters, c \in Selections, pk \in LeadIds, s \in StatusInputs :
        /\ company_required(DB, u)
        /\ Commit("lead_change_status", pk, lead_change_status_view(DB, u, pk, s, now))

TenantLeadChangeStage ==
    \E u \in Requesters, c \in Selections, pk \in LeadIds, g \in StageInputs :
        /\ company_required(DB, u)
        /\ Commit("lead_change_stage", pk, lead_change_stage_view(DB, u, pk, g, now))

NextTenant ==
    \/ Tick
    \/ TenantDashboard
    \/ TenantLeadList
    \/ TenantLeadDetail
    \/ TenantLeadCreate
    \/ TenantLeadChangeStatus
    \/ TenantLeadChangeStage

SpecTenant == Init /\ [][NextTenant]_vars

\* the ways a lead comes into being
NextIntake ==
    \/ Tick
    \/ LeadCreate
    \/ LeadImport
    \/ LeadObjectsCreate
    \/ Webhook

SpecIntake == Init /\ [][NextIntake]_vars

\* One lead taken from creation to won, as test_complete_lead_lifecycle does:
\* steps is the position in the script, resp.pk the lead, and a request moves
\* the script on when it is answered with success
Script(k, view, pk, r) ==
    /\ steps = k
    /\ r.resp \in {"302", "created"}
    /\ steps' = k + 1
    /\ leads' = r.db.leads
    /\ users' = r.db.users
    /\ activities' = r.db.activities
    /\ notes' = r.db.notes
    /\ contacts' = r.db.contacts
    /\ messages' = r.db.messages
    /\ channels' = r.db.channels
    /\ resp' = [view |-> view, pk |-> pk, code |-> r.resp]
    /\ UNCHANGED <<now, workers>>

Company1 == "A"
Agent1 == "g1"
PatientStage == 2
Company1Callers == {u \in Callers : UserCompany(u) = Company1}

LifeCreate ==
    \/ \E u \in Company1Callers, f \in CreateSubmissions :
           Script(0, "lead_create", NextId(DB), lead_create_view(DB, u, "POST", f, now))
    \/ \E row \in DirectRows :
           /\ row.company = Company1
           /\ InsertAllowed(DB, row)
           /\ Script(0, "objects_create", NextId(DB), Result(LeadInsert(DB, row, now), "created"))

LifeAssign ==
    \E u \in Company1Callers :
        Script(1, "lead_assign", resp.pk, lead_assign_view(DB, u, resp.pk, "POST", Agent1, now))

LifeContacted ==
    \E u \in Company1Callers :
        Script(2, "lead_change_status", resp.pk,
               lead_change_status_view(DB, u, resp.pk, "contacted", now))

LifeConverted ==
    \E u \in Company1Callers :
        Script(3, "lead_change_status", resp.pk,
               lead_change_status_view(DB, u, resp.pk, "converted", now))

LifePatientStage ==
    \E u \in Company1Callers :
        Script(4, "lead_change_stage", resp.pk,
               lead_change_stage_view(DB, u, resp.pk, PatientStage, now))

LifeWon ==
    \E u \in Company1Callers :
        Script(5, "lead_change_status", resp.pk,
               lead_change_status_view(DB, u, resp.pk, "won", now))

\* a second passes between two requests of the script
LifeTick ==
    /\ steps \in 1..5
    /\ now < activities[resp.pk][1].at + MaxWait
    /\ now' = now + 1
    /\ UNCHANGED <<leads, users, activities, notes, contacts, messages, channels, steps, resp,
                   workers>>

NextLifecycle ==
    \/ LifeCreate
    \/ LifeAssign
    \/ LifeContacted
    \/ LifeConverted
    \/ LifePatientStage
    \/ LifeWon
    \/ LifeTick

SpecLifecycle == Init /\ [][NextLifecycle]_vars

(***************************************************************************)
(* Requests answered at the same time.  No view and no model method opens  *)
(* a transaction, so every save() and create() commits on its own: a       *)
(* request is a sequence of statements on the instances it loaded, and     *)
(* the statements of two requests interleave.                              *)
(***************************************************************************)
\* the User counter a status feeds, "none" when it feeds none
CounterOf(new_status) ==
    CASE new_status = "converted" -> "total_leads_converted"
      [] new_status = "won" -> "total_leads_won"
      [] OTHER -> "none"

\* the statement after pc in Lead.assign_to and in Lead.change_status
NextPc(wk) ==
    IF wk.op = "assign"
    THEN CASE wk.pc = "save" -> "log"
           [] wk.pc = "log" -> "inc"
           [] wk.pc = "inc" -> "dec"
           [] OTHER -> "done"
    ELSE CASE wk.pc = "save" ->
                  IF wk.snap.assigned_to # NoUser /\ CounterOf(wk.arg) # "none"
                  THEN "load" ELSE "log"
           [] wk.pc = "load" -> "inc"
           [] wk.pc = "inc" -> "log"
           [] OTHER -> "done"

Advance(w, wk) == workers' = [workers EXCEPT ![w] = [wk EXCEPT !.pc = NextPc(wk)]]

\* lead_assign_view up to the call of assign_to: the lead, the new agent
\* (loaded by the form) and the old assignee are read
BeginAssign(w) ==
    \E l \in {1, 2}, user \in {"g2", "a1"} :
        /\ workers[w].pc = "idle"
        /\ leads[l].exists
        /\ can_be_assigned(leads[l])
        /\ UserCompany(user) = leads[l].company
        /\ workers' = [workers EXCEPT ![w] =
               [pc |-> "save", op |-> "assign", lead |-> l, arg |-> user, snap |-> leads[l],
                cnt |-> users[user].total_leads_assigned,
                old_cnt |-> IF leads[l].assigned_to # NoUser
                            THEN users[leads[l].assigned_to].total_leads_assigned
                            ELSE 0]]
        /\ UNCHANGED <<leads, users, activities, notes, contacts, messages, channels,
                       now, steps, resp>>

\* lead_change_status_view up to the call of change_status: the lead is read
BeginChangeStatus(w) ==
    \E l \in {1, 2}, new_status \in {"contacted", "converted", "won"} :
        /\ workers[w].pc = "idle"
        /\ leads[l].exists
        /\ workers' = [workers EXCEPT ![w] =
               [pc |-> "save", op |-> "change_status", lead |-> l, arg |-> new_status,
                snap |-> leads[l], cnt |-> 0, old_cnt |-> 0]]
        /\ UNCHANGED <<leads, users, activities, notes, contacts, messages, channels,
                       now, steps, resp>>

\* self.save(): the whole row is written from the instance
SaveLead(w) ==
    LET wk == workers[w] IN
    /\ wk.pc = "save"
    /\ leads' = [leads EXCEPT ![wk.lead] =
                    IF wk.op = "assign" THEN [wk.snap EXCEPT !.assigned_to = wk.arg]
                    ELSE [wk.snap EXCEPT !.status = wk.arg]]
    /\ Advance(w, wk)
    /\ UNCHANGED <<users, activities, notes, contacts, messages, channels, now, steps, resp>>

\* Activity.objects.create
LogActivity(w) ==
    LET wk == workers[w] IN
    /\ wk.pc = "log"
    /\ activities' = [activities EXCEPT ![wk.lead] =
                         Append(@, Activity(IF wk.op = "assign" THEN "assigned"
                                            ELSE "status_changed", now))]
    /\ Advance(w, wk)
    /\ UNCHANGED <<leads, users, notes, contacts, messages, channels, now, steps, resp>>

\* self.assigned_to: the assignee's User row is read
LoadUser(w) ==
    LET wk == workers[w] IN
    /\ wk.pc = "load"
    /\ workers' = [workers EXCEPT ![w] =
                      [wk EXCEPT !.pc = NextPc(wk),
                                 !.cnt = users[wk.snap.assigned_to][CounterOf(wk.arg)]]]
    /\ UNCHANGED <<leads, users, activities, notes, contacts, messages, channels,
                   now, steps, resp>>

\* counter += 1; save(update_fields=[counter]): the value read plus one is written
WriteCounter(w) ==
    LET wk == workers[w]
        user == IF wk.op = "assign" THEN wk.arg ELSE wk.snap.assigned_to
        field == IF wk.op = "assign" THEN "total_leads_assigned" ELSE CounterOf(wk.arg)
    IN /\ wk.pc = "inc"
       /\ users' = [users EXCEPT ![user][field] = wk.cnt + 1]
       /\ Advance(w, wk)
       /\ UNCHANGED <<leads, activities, notes, contacts, messages, channels,
                      now, steps, resp>>

\* old_assignee.total_leads_assigned = max(0, ... - 1); save
ReleaseOld(w) ==
    LET wk == workers[w]
        old_assignee == wk.snap.assigned_to
    IN /\ wk.pc = "dec"
       /\ users' = IF old_assignee # NoUser /\ old_assignee # wk.arg
                   THEN [users EXCEPT ![old_assignee].total_leads_assigned =
                                          Max0(wk.old_cnt - 1)]
                   ELSE users
       /\ Advance(w, wk)
       /\ UNCHANGED <<leads, activities, notes, contacts, messages, channels,
                      now, steps, resp>>

\* the process dies between two statements
Crash(w) ==
    /\ workers[w].pc \notin {"idle", "done", "crashed"}
    /\ workers' = [workers EXCEPT ![w].pc = "crashed"]
    /\ UNCHANGED <<leads, users, activities, notes, contacts, messages, channels,
                   now, steps, resp>>

NextConcurrent ==
    \E w \in Workers :
        \/ BeginAssign(w)
        \/ BeginChangeStatus(w)
        \/ SaveLead(w)
        \/ LogActivity(w)
        \/ LoadUser(w)
        \/ WriteCounter(w)
        \/ ReleaseOld(w)
        \/ Crash(w)

SpecConcurrent == Init /\ [][NextConcurrent]_vars

\* user management, with the lead operations that read or write users
NextUsers ==
    \/ Tick
    \/ UserDetail
    \/ UserEdit
    \/ UserDeleteReq
    \/ ToggleUserStatus
    \/ UserCreate
    \/ LeadAssign
    \/ LeadChangeStatus

SpecUsers == Init /\ [][NextUsers]_vars

TypeOK ==
    /\ steps \in Nat
    /\ now \in Nat
    /\ \A l \in LeadIds : leads[l].status \in STATUS_CHOICES \cup {"deleted"}

(***************************************************************************)
(* Properties                                                              *)
(***************************************************************************)
Closed(l) == leads[l].exists /\ leads[l].status \in {"won", "lost"}

\* the step answers a request to one of the views
Answered(views) == steps' = steps + 1 /\ now' = now /\ resp'.view \in views

\* the Activity rows the step appends to a lead
NewActivities(l) == SubSeq(activities'[l], Len(activities[l]) + 1, Len(activities'[l]))

Logged(l, type) ==
    \E i \in 1..Len(NewActivities(l)) : NewActivities(l)[i].type = type

CountType(acts, type) == Cardinality({i \in 1..Len(acts) : acts[i].type = type})

\* C1: assigning a lead whose status is won or lost returns failure, leaves
\* assigned_to as it was, writes no Activity and changes no user's counters:
\* by Lead.assign_to, by the assign endpoint and by the bulk assign action
C1_AssignClosedFails ==
    \A l \in LeadIds : Closed(l) =>
        /\ \A x \in UserIds : assign_to(DB, l, x, now) = [db |-> DB, ret |-> FALSE]
        /\ \A u \in Callers, x \in AssignInputs :
               LET r == lead_assign_view(DB, u, l, "POST", x, now) IN
               r.db = DB /\ r.resp \in {"closed", "404"}
        /\ \A u \in Callers, x \in AssignInputs, ids \in BulkSelections :
               LET r == lead_bulk_actions_view(DB, u, "assign", ids, x, now) IN
               /\ r.db.leads[l] = leads[l]
               /\ r.db.activities[l] = activities[l]
               /\ (\A k \in BulkLeads(DB, u, ids) : Closed(k)) => r.db = DB

\* an assign request on a closed lead has just been refused
C1_Witness ==
    /\ resp.view = "lead_assign" /\ resp.code = "closed"
    /\ Closed(resp.pk)

StateMachineViews ==
    {"lead_assign", "lead_change_status", "lead_quick_status", "lead_change_stage",
     "lead_add_note", "lead_detail", "lead_delete"}

OperationType(view) ==
    CASE view = "lead_assign" -> "assigned"
      [] view = "lead_change_stage" -> "stage_changed"
      [] view \in {"lead_add_note", "lead_detail"} -> "note_added"
      [] OTHER -> "status_changed"

Completed(r) == r.code = "302" \/ (r.view = "lead_quick_status" /\ r.code = "200")

\* C2: every completed state-machine operation on a lead (assign, change
\* status, change stage, add note, soft delete) adds exactly one Activity row
\* to that lead, of the type of the operation
C2_OneActivityPerOperation ==
    [][(Answered(StateMachineViews) /\ Completed(resp')) =>
           LET l == resp'.pk IN
           /\ Len(activities'[l]) = Len(activities[l]) + 1
           /\ activities'[l][Len(activities'[l])].type = OperationType(resp'.view)]_vars

\* C3: no request changes the assigned_to of a lead that is won or lost
C3_ClosedLeadKeepsAssignee ==
    [][\A l \in LeadIds : Closed(l) => leads'[l].assigned_to = leads[l].assigned_to]_vars

\* C4: a request that changes a lead's status, stage or assigned_to writes,
\* in the same request, an Activity row of the corresponding type
C4_ChangeIsLogged ==
    [][\A l \in LeadIds : leads[l].exists =>
           /\ leads'[l].status # leads[l].status => Logged(l, "status_changed")
           /\ leads'[l].stage # leads[l].stage => Logged(l, "stage_changed")
           /\ leads'[l].assigned_to # leads[l].assigned_to => Logged(l, "assigned")]_vars

\* a lead of another company than the caller's, and an id that is no row
OtherCompanyLead(u, l) == leads[l].exists /\ leads[l].company # UserCompany(u)

MissingLeads == {n \in LeadIds : ~leads[n].exists}

\* the result of every lookup-first lead endpoint for lead l is the one for id n
SameAsMissing(u, l, n) ==
    /\ \A m \in {"GET", "POST"}, c \in Contents :
           lead_detail_view(DB, u, l, m, c, now) = lead_detail_view(DB, u, n, m, c, now)
    /\ lead_json_view(DB, u, l) = lead_json_view(DB, u, n)
    /\ \A m \in {"GET", "POST"}, f \in EditSubmissions(leads[l]) :
           lead_edit_view(DB, u, l, m, f, now) = lead_edit_view(DB, u, n, m, f, now)
    /\ \A m \in {"GET", "POST"}, x \in AssignInputs :
           lead_assign_view(DB, u, l, m, x, now) = lead_assign_view(DB, u, n, m, x, now)
    /\ \A st \in StatusInputs :
           lead_change_status_view(DB, u, l, st, now)
               = lead_change_status_view(DB, u, n, st, now)
    /\ \A g \in StageInputs :
           lead_change_stage_view(DB, u, l, g, now) = lead_change_stage_view(DB, u, n, g, now)
    /\ \A d \in FollowUpInputs \cup {NoTime} :
           lead_set_follow_up_view(DB, u, l, d, now)
               = lead_set_follow_up_view(DB, u, n, d, now)
    /\ \A c \in Contents :
           lead_add_note_view(DB, u, l, c, now) = lead_add_note_view(DB, u, n, c, now)
    /\ \A st \in QuickStatusInputs :
           lead_quick_update_view(DB, u, l, "status", st, now)
               = lead_quick_update_view(DB, u, n, "status", st, now)
    /\ \A pr \in PriorityInputs :
           lead_quick_update_view(DB, u, l, "priority", pr, now)
               = lead_quick_update_view(DB, u, n, "priority", pr, now)
    /\ \A d \in FollowUpInputs :
           lead_quick_update_view(DB, u, l, "next_follow_up", d, now)
               = lead_quick_update_view(DB, u, n, "next_follow_up", d, now)
    /\ lead_detail_view(DB, u, n, "GET", "", now) = Result(DB, "404")
    /\ lead_json_view(DB, u, n) = Result(DB, "404")
    /\ lead_edit_view(DB, u, n, "GET", FormOf(leads[l]), now) = Result(DB, "404")
    /\ lead_assign_view(DB, u, n, "GET", NoUser, now) = Result(DB, "404")
    /\ lead_change_status_view(DB, u, n, "won", now) = Result(DB, "404")
    /\ lead_change_stage_view(DB, u, n, 2, now) = Result(DB, "404")
    /\ lead_set_follow_up_view(DB, u, n, now, now) = Result(DB, "404")
    /\ lead_add_note_view(DB, u, n, "x", now) = Result(DB, "404")
    /\ lead_quick_update_view(DB, u, n, "status", "won", now) = Result(DB, "404")

\* C5 as stated: on a lead of another company every lead endpoint, delete
\* included, answers not found exactly as for an id that is no row, and the
\* database is left as it was
C5_CrossTenantIsNotFound ==
    \A u \in Callers, l \in LeadIds, n \in MissingLeads : OtherCompanyLead(u, l) =>
        /\ SameAsMissing(u, l, n)
        /\ \A ajax \in BOOLEAN :
               /\ lead_delete_view(DB, u, l, ajax, now) = Result(DB, "404")
               /\ lead_delete_view(DB, u, n, ajax, now) = Result(DB, "404")

\* C5, amended: on a lead of another company every lead endpoint answers
\* exactly as for an id that is no row and leaves the database as it was; the
\* answer is not found, except that delete refuses a caller who is not an
\* admin (403, or a redirect to the dashboard) before any lookup
C5_CrossTenantSameAsMissing ==
    \A u \in Callers, l \in LeadIds, n \in MissingLeads : OtherCompanyLead(u, l) =>
        /\ SameAsMissing(u, l, n)
        /\ \A ajax \in BOOLEAN :
               /\ lead_delete_view(DB, u, l, ajax, now) = lead_delete_view(DB, u, n, ajax, now)
               /\ lead_delete_view(DB, u, l, ajax, now) =
                      Result(DB, IF is_admin(DB, u) THEN "404"
                                 ELSE IF ajax THEN "403" ELSE "to_dashboard")

\* a request naming a lead of another company has just been answered not found
C5_Witness ==
    /\ resp.code = "404"
    /\ resp.pk \in LeadIds
    /\ leads[resp.pk] = MkLead("B", "new", NoUser)
    /\ activities[resp.pk] = Acts(<<"created">>)

\* an admin and a user row of another company
OtherCompanyUser(u, x) ==
    is_admin(DB, u) /\ users[x].exists /\ UserCompany(x) # UserCompany(u)

\* C6: when an admin targets a user of another company (view, edit, delete,
\* activate/deactivate) the outcome is the one for a user id that is no row,
\* and the user row is left as it was
C6_CrossTenantUserIsNotFound ==
    \A u \in Callers, x \in UserIds : OtherCompanyUser(u, x) =>
        /\ user_detail_view(DB, u, x) = user_detail_view(DB, u, MissingUser)
        /\ \A m \in {"GET", "POST"}, f \in UserForms :
               user_edit_view(DB, u, x, m, f) = user_edit_view(DB, u, MissingUser, m, f)
        /\ user_delete_view(DB, u, x) = user_delete_view(DB, u, MissingUser)
        /\ toggle_user_status(DB, u, x) = toggle_user_status(DB, u, MissingUser)

\* C7: two add_note calls with the same content within the de-duplication
\* window add exactly one note_added Activity and exactly two Note rows
C7_TwoNotesOneActivity ==
    \A l \in LeadIds, u \in Callers, t2 \in now..(now + DedupWindow) : leads[l].exists =>
        LET d == add_note(add_note(DB, l, "x", u, now), l, "x", u, t2) IN
        /\ CountType(d.activities[l], "note_added")
               = CountType(activities[l], "note_added") + 1
        /\ Len(d.notes[l]) = Len(notes[l]) + 2

Counters(db, x) ==
    <<db.users[x].total_leads_assigned, db.users[x].total_leads_converted,
      db.users[x].total_leads_won>>

\* the counters after a reassignment of a lead from X to Y
Reassigned(db, X, Y) ==
    /\ db.users[X].total_leads_assigned = Max0(users[X].total_leads_assigned - 1)
    /\ db.users[Y].total_leads_assigned = users[Y].total_leads_assigned + 1
    /\ \A z \in UserIds : Counters(db, z)[2] = Counters(DB, z)[2]
                          /\ Counters(db, z)[3] = Counters(DB, z)[3]
    /\ \A z \in UserIds \ {X, Y} : Counters(db, z) = Counters(DB, z)

\* C8: reassigning an assignable lead from X to a different Y takes one from
\* X's leads_assigned, never below 0, adds one to Y's, and changes no other
\* counter of any user: by Lead.assign_to and by the assign endpoint
C8_ReassignMovesOneCount ==
    \A l \in LeadIds, Y \in UserIds :
        LET X == leads[l].assigned_to IN
        (leads[l].exists /\ can_be_assigned(leads[l]) /\ X # NoUser /\ Y # X) =>
            /\ assign_to(DB, l, Y, now).ret
            /\ Reassigned(assign_to(DB, l, Y, now).db, X, Y)
            /\ \A u \in Callers :
                   LET r == lead_assign_view(DB, u, l, "POST", Y, now) IN
                   IF r.resp = "302" THEN Reassigned(r.db, X, Y) ELSE r.db = DB

\* lead 1 has just been reassigned from g1 to g2
C8_Witness ==
    /\ resp = [view |-> "lead_assign", pk |-> 1, code |-> "302"]
    /\ leads[1].assigned_to = "g2"
    /\ CountType(activities[1], "assigned") = 2
    /\ users["g1"].total_leads_assigned = 0
    /\ users["g2"].total_leads_assigned = 1

Bump(flag) == IF flag THEN 1 ELSE 0

\* from database d0 to d1, the counters after change_status(new_status) on a
\* lead assigned to a
StatusCounted(d0, d1, a, new_status) ==
    /\ d1.users[a].total_leads_converted
           = d0.users[a].total_leads_converted + Bump(new_status = "converted")
    /\ d1.users[a].total_leads_won
           = d0.users[a].total_leads_won + Bump(new_status = "won")
    /\ d1.users[a].total_leads_assigned = d0.users[a].total_leads_assigned
    /\ \A z \in UserIds \ {a} : Counters(d1, z) = Counters(d0, z)

\* Lead.change_status called on any assigned lead of database d0
ChangeStatusCounts(d0, t) ==
    \A l \in LeadIds, st \in StatusInputs \cup STATUS_CHOICES :
        (d0.leads[l].exists /\ d0.leads[l].assigned_to # NoUser) =>
            StatusCounted(d0, change_status(d0, l, st, t), d0.leads[l].assigned_to, st)

NoCounterDecrease ==
    \A z \in UserIds :
        /\ users'[z].total_leads_converted >= users[z].total_leads_converted
        /\ users'[z].total_leads_won >= users[z].total_leads_won

\* C9: change_status on a lead with an assignee adds one to the assignee's
\* leads_converted when the new status is converted, one to leads_won when it
\* is won, and leaves both alone otherwise, called directly or through its
\* endpoint; no request ever lowers a leads_converted or leads_won counter
C9_StatusCounters ==
    [][/\ NoCounterDecrease
       /\ ChangeStatusCounts(DB, now)
       /\ ChangeStatusCounts(DB', now')
       /\ (Answered({"lead_change_status"}) /\ resp'.code = "302"
              /\ leads[resp'.pk].assigned_to # NoUser) =>
              StatusCounted(DB, DB', leads[resp'.pk].assigned_to,
                            leads'[resp'.pk].status)]_vars

\* lead 1, assigned to g1, has just been moved to won through the endpoint
C9_Witness ==
    /\ resp = [view |-> "lead_change_status", pk |-> 1, code |-> "302"]
    /\ leads[1].status = "won"
    /\ leads[1].assigned_to = "g1"
    /\ users["g1"].total_leads_won = 1
    /\ users["g1"].total_leads_converted = 0

\* C10: an admin's request to the delete endpoint for a won lead is refused
\* and leaves the lead (status won, every other field), its Activity rows and
\* the rest of the database as they were
C10_WonLeadNotDeleted ==
    \A u \in Callers, l \in LeadIds, ajax \in BOOLEAN :
        (is_admin(DB, u) /\ GetLead(DB, u, l) = l /\ leads[l].status = "won") =>
            lead_delete_view(DB, u, l, ajax, now) = Result(DB, "cannot_delete_won")

\* the delete request on won lead 1 has just been refused
C10_Witness ==
    /\ resp = [view |-> "lead_delete", pk |-> 1, code |-> "cannot_delete_won"]
    /\ leads[1].status = "won"
    /\ activities[1] = Acts(<<"created", "assigned", "status_changed">>)

\* C11: a bulk action treats each selected lead as the single-lead operation
\* does: bulk delete leaves a won lead as it is and bulk assign leaves a won
\* or lost lead as it is
C11_BulkFollowsSingleRules ==
    [][/\ Answered({"bulk_delete"}) =>
              \A l \in LeadIds : (leads[l].exists /\ leads[l].status = "won") =>
                  leads'[l] = leads[l] /\ activities'[l] = activities[l]
       /\ Answered({"bulk_assign"}) =>
              \A l \in LeadIds : Closed(l) =>
                  leads'[l] = leads[l] /\ activities'[l] = activities[l]]_vars

\* an authenticated user of the lead's company who is not an admin
AgentOf(u, l) == ~is_admin(DB, u) /\ GetLead(DB, u, l) = l

\* C12: a delete request from an agent, the lead's assignee included, is
\* answered 403 and leaves the database as it was, on the delete endpoint and
\* on the bulk delete action
C12_AgentDeleteIs403 ==
    \A u \in Callers, l \in LeadIds : AgentOf(u, l) =>
        /\ \A ajax \in BOOLEAN : lead_delete_view(DB, u, l, ajax, now) = Result(DB, "403")
        /\ \A ids \in BulkSelections : l \in ids =>
               lead_bulk_actions_view(DB, u, "delete", ids, "", now) = Result(DB, "403")

\* the lead's fields that the edit form submits are the submitted ones
Saved(db, l, f) ==
    /\ FormOf(db.leads[l]) = f
    /\ db = [DB EXCEPT !.leads[l] = db.leads[l]]

QuickUpdates ==
    {<<"status", st>> : st \in QuickStatusInputs}
    \cup {<<"priority", pr>> : pr \in PriorityInputs}
    \cup {<<"next_follow_up", d>> : d \in FollowUpInputs}

\* C13: an edit of a lead assigned to one agent, attempted by another agent
\* of the same company, is refused with a permission error and changes
\* nothing; the same edit by an admin of the company or by the assignee is
\* carried out (a valid submission is saved)
C13_OnlyAdminOrAssigneeEdits ==
    \A l \in LeadIds, u \in Callers :
        (GetLead(DB, u, l) = l /\ leads[l].assigned_to \notin {NoUser, u}
             /\ ~is_admin(DB, leads[l].assigned_to)) =>
            /\ ~is_admin(DB, u) =>
                   /\ \A f \in EditSubmissions(leads[l]) :
                          lead_edit_view(DB, u, l, "POST", f, now) = Result(DB, "denied")
                   /\ \A q \in QuickUpdates :
                          lead_quick_update_view(DB, u, l, q[1], q[2], now) = Result(DB, "403")
            /\ \A v \in {x \in Callers : is_admin(DB, x) /\ GetLead(DB, x, l) = l}
                        \cup ({leads[l].assigned_to} \cap Callers),
                  f \in EditSubmissions(leads[l]) :
                   LET r == lead_edit_view(DB, v, l, "POST", f, now) IN
                   IF FormValid(DB, v, f, now)
                   THEN r.resp = "302" /\ Saved(r.db, l, f)
                   ELSE r = Result(DB, "200")

\* agent g2 has just been refused the edit of lead 1, assigned to g1
C13_Witness ==
    /\ resp = [view |-> "lead_edit", pk |-> 1, code |-> "denied"]
    /\ leads[1] = MkLead("A", "new", "g1")
    /\ activities[1] = Acts(<<"created", "assigned">>)

\* no two rows of the same company hold the same phone
Unique(db) ==
    \A l, k \in LeadIds :
        (/\ db.leads[l].exists /\ db.leads[k].exists
         /\ db.leads[l].company = db.leads[k].company
         /\ db.contacts[l].phone = db.contacts[k].phone) => l = k

RowCount(db) == Cardinality(LeadIds \ FreeIds(db))

Has(db, company, phone) == LeadByPhone(db, company, phone) # NotFound

\* C14: no two Lead rows share (company, phone). A creation whose phone the
\* company already holds fails and adds no row, the same phone in another
\* company is created: through the create form, the file import, the webhook
\* and a direct insert, and when an import runs on a list of phones read
\* before another creation was committed
C14_UniqueCompanyPhone ==
    /\ Unique(DB)
    /\ Room(DB, 1) =>
           /\ \A u \in Callers, f \in CreateSubmissions :
                  CreateFormValid(DB, u, f, now) =>
                      LET r == lead_create_view(DB, u, "POST", f, now) IN
                      IF Has(DB, UserCompany(u), clean_phone(f.phone))
                      THEN r = Result(DB, "error")
                      ELSE /\ r.resp = "302"
                           /\ RowCount(r.db) = RowCount(DB) + 1
                           /\ Has(r.db, UserCompany(u), clean_phone(f.phone))
                           /\ Unique(r.db)
           /\ \A row \in DirectRows :
                  row.stage # NoStage =>
                      IF Has(DB, row.company, row.phone)
                      THEN ~InsertAllowed(DB, row)
                      ELSE /\ InsertAllowed(DB, row)
                           /\ RowCount(LeadInsert(DB, row, now)) = RowCount(DB) + 1
                           /\ Unique(LeadInsert(DB, row, now))
           /\ \A webhook_secret \in WebhookSecrets, p \in Payloads :
                  LET r == webhook_receiver(DB, webhook_secret, p, now) IN
                  Unique(r.db) /\ RowCount(r.db) = RowCount(DB)
    /\ \A u \in Callers, rows \in ImportFiles :
           Room(DB, Len(rows)) =>
               LET r == lead_import_view(DB, u, "POST", rows, NoUser, now) IN
               /\ Unique(r.db)
               /\ \A i \in 1..Len(rows) :
                      Has(DB, UserCompany(u), rows[i].phone) =>
                          LeadByPhone(r.db, UserCompany(u), rows[i].phone)
                              = LeadByPhone(DB, UserCompany(u), rows[i].phone)
    /\ Room(DB, 2) =>
           \A u \in Callers, f \in CreateSubmissions, v \in Callers, rows \in ImportFiles :
               Len(rows) = 1 =>
                   Unique(ImportRows(lead_create_view(DB, u, "POST", f, now).db,
                                     ExistingPhones(DB, UserCompany(v)),
                                     NamedRows(rows), v, NoUser, now))

\* the form's phone 0100 is stored as +20100, which lead 1 of the company
\* holds: the creation was refused and the table still has its two rows
C14_Witness ==
    /\ resp = [view |-> "lead_create", pk |-> 0, code |-> "error"]
    /\ contacts[1].phone = "+20100"
    /\ RowCount(DB) = 2

\* C15: creating a lead, by the create form, the import, the webhook or a
\* direct insert, writes exactly one Activity of type created, with the insert
C15_OneCreatedActivity ==
    \A l \in LeadIds : leads[l].exists => CountType(activities[l], "created") = 1

\* the types of a lead's activities, oldest first
Types(acts) == [i \in 1..Len(acts) |-> acts[i].type]

\* seq holds the elements of sub in sub's order
RECURSIVE InOrder(_, _)
InOrder(sub, seq) ==
    IF sub = <<>> THEN TRUE
    ELSE IF seq = <<>> THEN FALSE
    ELSE IF Head(sub) = Head(seq) THEN InOrder(Tail(sub), Tail(seq))
    ELSE InOrder(sub, Tail(seq))

\* C16: after create, assign to Agent1, contacted, converted, patient stage,
\* won, the lead is won, Agent1 has at least one converted and one won lead,
\* and the lead's activities hold created, assigned, status_changed,
\* status_changed, stage_changed, status_changed in that order
C16_Lifecycle ==
    steps = 6 =>
        /\ leads[resp.pk].status = "won"
        /\ users[Agent1].total_leads_converted >= 1
        /\ users[Agent1].total_leads_won >= 1
        /\ InOrder(<<"created", "assigned", "status_changed", "status_changed",
                     "stage_changed", "status_changed">>,
                   Types(activities[resp.pk]))

\* the script ran to its end on a lead created through the form
C16_Witness ==
    /\ steps = 6
    /\ resp = [view |-> "lead_change_status", pk |-> 3, code |-> "302"]
    /\ leads[3].assigned_to = Agent1
    /\ leads[3].stage = PatientStage
    /\ CountType(activities[3], "created") = 2

\* the Message rows that carry a provider message id
MessagesWithId(db, message_id) ==
    UNION {{<<l, i>> : i \in {j \in 1..Len(db.messages[l]) :
                                 db.messages[l][j].woztell_message_id = message_id}} :
           l \in LeadIds}

LeadsWithPhone(db, company, phone) ==
    {l \in LeadIds : /\ db.leads[l].exists
                     /\ db.leads[l].company = company
                     /\ db.contacts[l].phone = phone}

\* C17: a payload delivered again with the same non-empty message_id leaves
\* exactly one Lead for (company, phone) and exactly one Message row with
\* that provider id
C17_RedeliveryIsIdempotent ==
    \A webhook_secret \in WebhookSecrets, p \in Payloads :
        LET r == webhook_receiver(DB, webhook_secret, p, now) IN
        (p.message_id # "" /\ r.resp = "200") =>
            /\ \A c \in ActiveConfig(webhook_secret) :
                   Cardinality(LeadsWithPhone(r.db, c.company, p.phone)) = 1
            /\ Cardinality(MessagesWithId(r.db, p.message_id)) = 1

\* a payload the webhook has no reason to refuse
ValidPayload(p) ==
    /\ p.json
    /\ p.phone # ""
    /\ p.message # "" \/ p.media_url # ""
    /\ MessageInsertAllowed(p)

\* C18: a valid delivery for a phone with no lead is answered 200 and creates
\* the lead with status new in the first active stage of type lead; for an
\* existing lead the name changes only to a non-empty, different incoming name
C18_WebhookUpsert ==
    \A webhook_secret \in WebhookSecrets, p \in Payloads :
        \A c \in ActiveConfig(webhook_secret) :
            ValidPayload(p) =>
                LET r == webhook_receiver(DB, webhook_secret, p, now)
                    old == LeadByPhone(DB, c.company, p.phone)
                    new == LeadByPhone(r.db, c.company, p.phone)
                IN IF old = NotFound
                   THEN /\ r.resp = "200"
                        /\ new # NotFound
                        /\ r.db.leads[new].status = "new"
                        /\ r.db.leads[new].stage = default_stage
                   ELSE /\ new = old
                        /\ r.db.leads = DB.leads
                        /\ r.db.contacts[old].name =
                               IF p.name # "" /\ p.name # DB.contacts[old].name
                               THEN p.name
                               ELSE DB.contacts[old].name

C20_Rejections ==
    \A webhook_secret \in WebhookSecrets, p \in Payloads :
        LET r == webhook_receiver(DB, webhook_secret, p, now) IN
        /\ (\A c \in WoztellConfigs : c.webhook_secret = webhook_secret => ~c.is_active)
               => r = Result(DB, "401")
        /\ (\E c \in WoztellConfigs : c.webhook_secret = webhook_secret /\ c.is_active) =>
               /\ p.phone = "" => r = Result(DB, "400")
               /\ (p.message = "" /\ p.media_url = "") => r = Result(DB, "400")
        /\ r.resp \in {"401", "400"} => r.db = DB

\* a delivery was refused for its secret and the tables are as they were
C20_Witness ==
    /\ resp = [view |-> "webhook", pk |-> 0, code |-> "401"]
    /\ \A l \in LeadIds : messages[l] = <<>> /\ channels[l] = NoChannel
    /\ RowCount(DB) = 2

\* the request reaches the transaction of send_message_api
Sendable(db, u, p) ==
    /\ p.json
    /\ p.message # "" \/ p.media_url # ""
    /\ GetLead(db, u, p.lead_id) # NotFound
    /\ is_admin(db, u) \/ db.leads[p.lead_id].assigned_to = u
    /\ MessageInsertAllowed(p)

Without(db, l) == [db EXCEPT !.leads[l] = NoLead]

\* C22: a lead whose status is deleted is still found by id, and no list,
\* board, export or dashboard figure shows or counts it
C22_DeletedIsHidden ==
    \A u \in Callers, l \in LeadIds :
        (GetLead(DB, u, l) = l /\ leads[l].status = "deleted") =>
            /\ lead_detail_view(DB, u, l, "GET", "", now) = Result(DB, "200")
            /\ l \notin lead_list_view(DB, u)
            /\ l \notin lead_kanban_view(DB, u)
            /\ l \notin lead_export_view(DB, u)
            /\ dashboard_view(DB, u, UserCompany(u))
                   = dashboard_view(Without(DB, l), u, UserCompany(u))

\* the database with only the company's leads that are assigned to u
OwnLeadsOnly(db, u) ==
    [db EXCEPT !.leads = [l \in LeadIds |->
                             IF db.leads[l].assigned_to = u THEN db.leads[l] ELSE NoLead]]

\* C23: the dashboard of an admin aggregates all leads of the tenant, the
\* dashboard of an agent only the leads assigned to that agent: none of its
\* figures counts a lead assigned to someone else
C23_DashboardScope ==
    \A u \in Callers :
        LET d == dashboard_view(DB, u, UserCompany(u)) IN
        IF is_admin(DB, u)
        THEN /\ d.recent_leads = CompanyLeads(DB, UserCompany(u))
             /\ d.total_leads = Cardinality(CompanyLeads(DB, UserCompany(u)))
             /\ d.user_stats.assigned = Cardinality(CompanyLeads(DB, UserCompany(u)))
        ELSE d = dashboard_view(OwnLeadsOnly(DB, u), u, UserCompany(u))

\* two requests that have run to their end
BothDone(w1, w2) == w1 # w2 /\ workers[w1].pc = "done" /\ workers[w2].pc = "done"

\* C24: counter updates add their delta to the stored value: when two
\* assignments that read the same value of a user's leads_assigned both
\* finish, the counter is that value plus two
C24_NoLostUpdate ==
    \A w1, w2 \in Workers :
        (/\ BothDone(w1, w2)
         /\ workers[w1].op = "assign" /\ workers[w2].op = "assign"
         /\ workers[w1].arg = workers[w2].arg
         /\ workers[w1].cnt = workers[w2].cnt
         /\ workers[w1].snap.assigned_to \notin {workers[w1].arg}
         /\ workers[w2].snap.assigned_to \notin {workers[w2].arg})
        => users[workers[w1].arg].total_leads_assigned = workers[w1].cnt + 2

\* C25: two reassignments of the same lead, read while it was assigned to X,
\* to Y and to Z: the counters are those of one reassignment after the other,
\* X one lower, the final assignee one higher, the other target as it was
C25_ReassignSerializable ==
    \A w1, w2 \in Workers :
        (/\ BothDone(w1, w2)
         /\ workers[w1].op = "assign" /\ workers[w2].op = "assign"
         /\ workers[w1].lead = workers[w2].lead
         /\ workers[w1].snap = workers[w2].snap
         /\ workers[w1].snap.assigned_to # NoUser
         /\ workers[w1].arg # workers[w2].arg
         /\ leads[workers[w1].lead].assigned_to = workers[w1].arg)
        => /\ users[workers[w1].snap.assigned_to].total_leads_assigned
                  = Max0(workers[w1].old_cnt - 1)
           /\ users[workers[w1].arg].total_leads_assigned = workers[w1].cnt + 1
           /\ users[workers[w2].arg].total_leads_assigned = workers[w2].cnt

\* C26: a lead mutation is all or nothing: the step that changes a lead also
\* writes its Activity, and the step that changes a counter also changes the
\* lead, so that no reader and no crash finds one without the other
C26_AllOrNothing ==
    [][/\ \A l \in LeadIds :
              leads'[l] # leads[l] => Len(activities'[l]) = Len(activities[l]) + 1
       /\ users' # users => leads' # leads]_vars

(***************************************************************************)
(* Tenancy                                                                 *)
(***************************************************************************)
Companies == {"A", "B"}

\* C27: every lead and every user who is not a superuser belongs to one
\* company, and the user a lead is assigned to is a user of the lead's company
C27_OneCompanyNoCrossTenant ==
    /\ \A l \in LeadIds : leads[l].exists =>
          /\ leads[l].company \in Companies
          /\ leads[l].assigned_to # NoUser =>
                UserCompany(leads[l].assigned_to) = leads[l].company
    /\ \A x \in UserIds \ Superusers : users[x].exists => UserCompany(x) \in Companies

\* a lead of the caller's company that the caller neither administers nor holds
NotTheirs(db, u, l) == GetLead(db, u, l) # NotFound /\ ~CanEdit(db, u, l)

\* C28: a caller who is neither an admin nor the lead's current assignee is
\* refused by every endpoint that edits a lead of the company (change status,
\* change stage, assign, set follow-up, quick update, bulk status, stage,
\* priority and assign): the database stays as it was
C28_EditNeedsAdminOrAssignee ==
    \A u \in Callers, l \in LeadIds : NotTheirs(DB, u, l) =>
        /\ \A s \in StatusInputs : lead_change_status_view(DB, u, l, s, now).db = DB
        /\ \A g \in StageInputs : lead_change_stage_view(DB, u, l, g, now).db = DB
        /\ \A a \in AssignInputs : lead_assign_view(DB, u, l, "POST", a, now).db = DB
        /\ \A d \in FollowUpInputs : lead_set_follow_up_view(DB, u, l, d, now).db = DB
        /\ \A s \in QuickStatusInputs :
               lead_quick_update_view(DB, u, l, "status", s, now).db = DB
        /\ \A p \in PriorityInputs :
               lead_quick_update_view(DB, u, l, "priority", p, now).db = DB
        /\ \A s \in BulkStatusInputs :
               lead_bulk_actions_view(DB, u, "change_status", {l}, s, now).db = DB
        /\ \A g \in StageInputs :
               lead_bulk_actions_view(DB, u, "change_stage", {l}, g, now).db = DB
        /\ \A p \in PriorityInputs :
               lead_bulk_actions_view(DB, u, "set_priority", {l}, p, now).db = DB
        /\ \A a \in AssignInputs :
               lead_bulk_actions_view(DB, u, "assign", {l}, a, now).db = DB

\* the leads of a company that the list page shows
Listed(db, company) == {l \in CompanyLeads(db, company) : db.leads[l].status # "deleted"}

\* C29: a superuser without a company whose session has selected company T
\* is served T's leads by the lead operations (list, detail, change of
\* status, creation) as by the dashboard; a user who is not a superuser is
\* served the leads of the user's own company whatever the session holds
C29_SelectedTenantEverywhere ==
    \A u \in Requesters, c \in Selections :
        LET T == get_user_company(u, c) IN
        /\ u \notin Superusers => T = UserCompany(u)
        /\ T # NoCompany =>
              /\ dashboard_entry(DB, u, c).resp = "200"
              /\ dashboard_view(DB, u, T).total_leads = Cardinality(CompanyLeads(DB, T))
              /\ lead_list_view(DB, u) = Listed(DB, T)
              /\ \A l \in CompanyLeads(DB, T) :
                    /\ lead_detail_view(DB, u, l, "GET", "", now).resp = "200"
                    /\ lead_change_status_view(DB, u, l, "contacted", now).resp = "302"
              /\ \A f \in CreateSubmissions :
                    LET r == lead_create_view(DB, u, "POST", f, now) IN
                    r.resp = "302" => r.db.leads[NextId(DB)].company = T
              /\ \A f \in CreateSubmissions :
                    (Room(DB, 1) /\ f.assigned_to = NoUser /\ f.name # ""
                     /\ clean_phone(f.phone) # ""
                     /\ LeadByPhone(DB, T, clean_phone(f.phone)) = NotFound)
                    => lead_create_view(DB, u, "POST", f, now).resp = "302"

\* the leads assigned to a user
AssignedLeads(u) == {l \in LeadIds : leads[l].exists /\ leads[l].assigned_to = u}

\* C30: the leads_assigned counter of every user equals the number of leads
\* assigned to that user, after any sequence of creations and assignments
C30_CounterMatchesAssignments ==
    \A u \in UserIds : users[u].exists =>
        users[u].total_leads_assigned = Cardinality(AssignedLeads(u))

====
